---- MODULE Spec2Model ----
(***************************************************************************)
(* Verification model of multicam/knowledge-db.                            *)
(*                                                                         *)
(*   SpecChunk : chunkDocument            (src/src/vector/hnswlib.ts)       *)
(*   SpecFuse  : KnowledgeBase.hybridSearch, the fuse step (src/src/index.ts)*)
(*   SpecVS    : VectorStore over the HNSW index (src/src/vector/hnswlib.ts)*)
(*   SpecKB    : KnowledgeBase over KnowledgeDB + VectorStore               *)
(*   SpecKB    : KnowledgeBase over KnowledgeDB + VectorStore               *)
(*   SpecSearch: the queries of KnowledgeBase                               *)
(*   SpecStale : search over an index with room for stale entries           *)
(*   SpecNV    : the named_vectors table (src/src/database/db.ts)           *)
(*   SpecAlgebra : KnowledgeBase.vectorAlgebra                              *)
(*   SpecRetry : OpenAIEmbeddings.embedBatchWithRetry                       *)
(*                                                                         *)
(* Strings are sequences of one-character strings, positions are 0-based   *)
(* as in JavaScript.  Scores and cosine distances are exact rationals,     *)
(* kept as integers over a fixed denominator or compared by cross          *)
(* multiplication.                                                         *)
(***************************************************************************)
EXTENDS Integers, Sequences, FiniteSets, TLC

VARIABLES
    \* ---- chunkDocument ----
    content,      \* the input string
    chunkSize,    \* parameter chunkSize
    overlap,      \* parameter overlap
    position,     \* local `position`
    chunks,       \* local `chunks` (the strings pushed, trimmed)
    ranges,       \* history: source range <<start, end>> of every pushed chunk
    cpc,          \* "start" | "loop" | "done"
    returned,     \* the list chunkDocument returned
    \* ---- hybridSearch, the fuse step ----
    sqlResults,       \* ranked lexical hits (document ids)
    semanticResults,  \* semantic hits [id, similarity], as search() returned them
    limit,            \* parameter limit
    merged,           \* the Map `merged`, entries in insertion order
    fidx,             \* number of entries of the current forEach already visited
    fpc,              \* "idle" | "sql" | "semantic" | "sort" | "done"
    fused,            \* the list hybridSearch returned
    \* ---- VectorStore ----
    vs,           \* the VectorStore object: initialized, numElements, index
    file,         \* what is at indexPath: absent, corrupt, or a written index
    savedCount,   \* history: getCount() of the store at its last successful save(),
                  \* -1 when that store had been initialized more than once
    vsOut,        \* the last VectorStore call and its outcome
    \* ---- KnowledgeBase ----
    kbInitialized,  \* KnowledgeBase.initialized
    db,             \* the KnowledgeDB: open, documents, embeddings, AUTOINCREMENT counter
    kbOut,          \* the last KnowledgeBase call and its outcome
    addedCount,     \* history: the number of documents added, while every call
                    \* after the first initialize() was an addDocument(s) that
                    \* succeeded; -1 from then on
    \* ---- KnowledgeDB, named vectors ----
    namedVectors,   \* the rows of table named_vectors
    lastSaved,      \* history: per handle, the arguments of the last save not yet deleted
    nvOut,          \* the last named-vector call and its outcome
    \* ---- KnowledgeBase.vectorAlgebra ----
    operations,   \* parameter operations
    vaIdx,        \* number of operations the for loop has visited
    vaResult,     \* local `result`: <<>> for null, else <<vector>>
    vaPc,         \* "idle" | "loop" | "done" | "HandleNotFound"
    \* ---- OpenAIEmbeddings.embedBatchWithRetry ----
    maxRetries,   \* this.maxRetries
    retryDelay,   \* this.retryDelay
    attempt,      \* parameter attempt of the call in progress
    requests,     \* history: number of fetch calls made
    delays,       \* history: the sleeps, in order
    response,     \* the answer to the last request
    rpc           \* "idle" | "call" | "done" | "failed"

chunkVars == <<content, chunkSize, overlap, position, chunks, ranges, cpc, returned>>

fuseVars == <<sqlResults, semanticResults, limit, merged, fidx, fpc, fused>>

vsVars == <<vs, file, savedCount, vsOut>>

kbVars == <<kbInitialized, db, kbOut, addedCount>>

nvVars == <<namedVectors, lastSaved, nvOut>>

vaVars == <<operations, vaIdx, vaResult, vaPc>>

retryVars == <<maxRetries, retryDelay, attempt, requests, delays, response, rpc>>

vars == <<chunkVars, fuseVars, vsVars, kbVars, nvVars, vaVars, retryVars>>

notChunk == <<fuseVars, vsVars, kbVars, nvVars, vaVars, retryVars>>

notFuse == <<chunkVars, vsVars, kbVars, nvVars, vaVars, retryVars>>

notVS == <<chunkVars, fuseVars, kbVars, nvVars, vaVars, retryVars>>

\* a KnowledgeBase owns a VectorStore and its index file
notKB == <<chunkVars, fuseVars, savedCount, vsOut, nvVars, vaVars, retryVars>>

notRetry == <<chunkVars, fuseVars, vsVars, kbVars, nvVars, vaVars>>

notVA == <<chunkVars, fuseVars, vsVars, kbVars, nvVars, retryVars>>

notNV == <<chunkVars, fuseVars, vsVars, kbVars, vaVars, retryVars>>

-----------------------------------------------------------------------------
(* Generic helpers                                                          *)

Min(a, b) == IF a < b THEN a ELSE b

Max(a, b) == IF a > b THEN a ELSE b

SetMax(S) == CHOOSE x \in S : \A y \in S : y <= x

\* All sequences over S of length 0..n
SeqsUpTo(S, n) == UNION {[1..k -> S] : k \in 0..n}

-----------------------------------------------------------------------------
(* JavaScript string primitives used by chunkDocument                       *)

NL == "\n"

Whitespace == {" ", NL}

\* String.prototype.substring(a, b): both ends clamped to [0, length],
\* swapped when a > b.
Substring(s, a, b) ==
    LET ca == Max(0, Min(a, Len(s)))
        cb == Max(0, Min(b, Len(s)))
    IN  SubSeq(s, Min(ca, cb) + 1, Max(ca, cb))

\* The index at which substring(a, b) starts reading.
SubstringStart(s, a, b) ==
    LET ca == Max(0, Min(a, Len(s)))
        cb == Max(0, Min(b, Len(s)))
    IN  Min(ca, cb)

\* String.prototype.lastIndexOf(pat): last 0-based index of pat, or -1.
LastIndexOf(s, pat) ==
    LET hits == {i \in 0..(Len(s) - Len(pat)) : SubSeq(s, i + 1, i + Len(pat)) = pat}
    IN  IF hits = {} THEN -1 ELSE SetMax(hits)

\* String.prototype.trim(): strips whitespace from both ends.
Trim(s) ==
    LET keep == {i \in 1..Len(s) : s[i] \notin Whitespace}
    IN  IF keep = {} THEN <<>>
        ELSE SubSeq(s, CHOOSE i \in keep : \A j \in keep : i <= j, SetMax(keep))

-----------------------------------------------------------------------------
(* chunkDocument, one loop iteration                                        *)

\* lines 409-415: the candidate window, extended backwards by the overlap
CandidateStart(c, cs, ov, pos) ==
    IF pos > 0 /\ ov > 0
    THEN SubstringStart(c, Max(0, pos - ov), pos + cs)
    ELSE SubstringStart(c, pos, pos + cs)

Candidate(c, cs, ov, pos) ==
    IF pos > 0 /\ ov > 0
    THEN Substring(c, Max(0, pos - ov), pos + cs)
    ELSE Substring(c, pos, pos + cs)

\* lines 425-430
SentenceBreak(chunk) ==
    Max(Max(LastIndexOf(chunk, <<".", " ">>), LastIndexOf(chunk, <<".", NL>>)),
        Max(LastIndexOf(chunk, <<"!", " ">>), LastIndexOf(chunk, <<"?", " ">>)))

\* lines 418-435: boundary adjustment.  x > chunkSize * 0.5  <=>  2x > chunkSize
AdjustBoundary(chunk, c, cs, pos) ==
    IF pos + cs < Len(c)
    THEN LET paragraphBreak == LastIndexOf(chunk, <<NL, NL>>)
             sentenceBreak  == SentenceBreak(chunk)
         IN  IF 2 * paragraphBreak > cs
             THEN Substring(chunk, 0, paragraphBreak)
             ELSE IF 2 * sentenceBreak > cs
                  THEN Substring(chunk, 0, sentenceBreak + 1)
                  ELSE chunk
    ELSE chunk

\* the chunk of the iteration at `pos`, before trim()
ChunkAt(c, cs, ov, pos) == AdjustBoundary(Candidate(c, cs, ov, pos), c, cs, pos)

\* lines 440-443: the position after the iteration at `pos`
NextPosition(c, cs, ov, pos) ==
    LET p == pos + Len(ChunkAt(c, cs, ov, pos))
    IN  IF p < Len(c) /\ ov > 0 THEN p - ov ELSE p

-----------------------------------------------------------------------------
(* chunkDocument as a state machine                                         *)

Alphabet == {"a", ".", " ", NL}

MaxContentLen == 7

ChunkSizes == {4, 5}

\* the loop is cut after this many iterations
MaxIterations == MaxContentLen + 2

ChunkIdle ==
    /\ content = <<>>
    /\ chunkSize = 0
    /\ overlap = 0
    /\ position = 0
    /\ chunks = <<>>
    /\ ranges = <<>>
    /\ cpc = "idle"
    /\ returned = <<>>

ChunkInit ==
    /\ content \in SeqsUpTo(Alphabet, MaxContentLen)
    /\ chunkSize \in ChunkSizes
    /\ overlap \in 0..chunkSize
    /\ position = 0
    /\ chunks = <<>>
    /\ ranges = <<>>
    /\ cpc = "start"
    /\ returned = <<>>

\* mutant: the short content goes through trim and the filter of line 446
WholeContent_TrimmedAndFiltered(c) == SelectSeq(<<Trim(c)>>, LAMBDA x : Len(x) > 0)

\* line 401: return [content]
WholeContent(c) == <<c>>

\* lines 400-402
ChunkShort ==
    /\ cpc = "start"
    /\ Len(content) <= chunkSize
    /\ returned' = WholeContent(content)
    /\ cpc' = "done"
    /\ UNCHANGED <<content, chunkSize, overlap, position, chunks, ranges>>
    /\ UNCHANGED notChunk

\* lines 407-444: one iteration of the while loop
ChunkStep ==
    /\ \/ cpc = "start" /\ Len(content) > chunkSize
       \/ cpc = "loop"
    /\ position < Len(content)
    /\ Len(chunks) < MaxIterations
    /\ LET chunk == ChunkAt(content, chunkSize, overlap, position)
           start == CandidateStart(content, chunkSize, overlap, position)
       IN  /\ chunks' = Append(chunks, Trim(chunk))
           /\ ranges' = Append(ranges, <<start, start + Len(chunk)>>)
    /\ position' = NextPosition(content, chunkSize, overlap, position)
    /\ cpc' = "loop"
    /\ UNCHANGED <<content, chunkSize, overlap, returned>>
    /\ UNCHANGED notChunk

\* line 446
ChunkReturn ==
    /\ cpc = "loop"
    /\ position >= Len(content)
    /\ returned' = SelectSeq(chunks, LAMBDA c : Len(c) > 0)
    /\ cpc' = "done"
    /\ UNCHANGED <<content, chunkSize, overlap, position, chunks, ranges>>
    /\ UNCHANGED notChunk

ChunkNext == ChunkShort \/ ChunkStep \/ ChunkReturn

-----------------------------------------------------------------------------
(* hybridSearch: merge, sort, truncate  (src/src/index.ts 437-457)          *)
(*                                                                         *)
(* A similarity s in [0,1] is the integer s * SimScale; a score is kept in  *)
(* units of 1 / (2 * SimScale), so the literal 0.5 is SimScale units and    *)
(* similarity * 0.5 is `similarity` units.                                  *)

MaxDocs == 3

MaxLimit == 2

SimScale == 2

DocIds == 1..MaxDocs

Half == SimScale

\* Map.get(id): position of id in the insertion-ordered map, 0 when absent
MapIndex(m, id) ==
    IF \E k \in 1..Len(m) : m[k].id = id
    THEN CHOOSE k \in 1..Len(m) : m[k].id = id
    ELSE 0

\* Map.set(id, value): replaces the value in place, or appends a new entry
MapSet(m, id, score) ==
    LET k == MapIndex(m, id)
    IN  IF k = 0
        THEN Append(m, [id |-> id, score |-> score])
        ELSE [m EXCEPT ![k] = [id |-> id, score |-> score]]

\* mutant: a lexical hit enters the map with score 0
MergeSql_NoBoost(m, docId) == MapSet(m, docId, 0)

\* lines 440-442: one iteration of sqlResults.forEach
MergeSql(m, docId) == MapSet(m, docId, Half)

\* mutant: an existing entry is overwritten instead of added to
MergeSemantic_Overwrite(m, r) == MapSet(m, r.id, r.similarity)

\* lines 444-452: one iteration of semanticResults.forEach
MergeSemantic(m, r) ==
    LET k == MapIndex(m, r.id)
    IN  IF k # 0
        THEN [m EXCEPT ![k].score = m[k].score + r.similarity]
        ELSE MapSet(m, r.id, r.similarity)

\* Array.prototype.sort((a, b) => b.score - a.score): stable, descending
RECURSIVE SortByScore(_)
SortByScore(s) ==
    IF Len(s) <= 1 THEN s
    ELSE LET rest == SortByScore(SubSeq(s, 1, Len(s) - 1))
             e    == s[Len(s)]
             \* e goes behind every entry that does not compare after it
             n    == Cardinality({k \in 1..Len(rest) : rest[k].score >= e.score})
         IN  SubSeq(rest, 1, n) \o <<e>> \o SubSeq(rest, n + 1, Len(rest))

\* Array.prototype.slice(0, n)
Slice(s, n) == SubSeq(s, 1, Min(n, Len(s)))

\* mutant: the sort takes equal scores in the reverse of their map order
SortAndTruncate_TiesReversed(m, lim) ==
    Slice(SortByScore([k \in 1..Len(m) |-> m[Len(m) + 1 - k]]), lim)

\* mutant: the sort is left out
SortAndTruncate_NoSort(m, lim) == Slice(m, lim)

\* lines 454-457
SortAndTruncate(m, lim) == Slice(SortByScore(m), lim)

Distinct(s, key(_)) == \A a, b \in 1..Len(s) : a # b => key(s[a]) # key(s[b])

IdOf(r) == r.id

Self(x) == x

\* KnowledgeDB.fulltextSearch(query, limit * 2): ranked rows, one per document
SqlResultSets(lim) ==
    {s \in SeqsUpTo(DocIds, MaxDocs) : Len(s) <= 2 * lim /\ Distinct(s, Self)}

\* KnowledgeBase.search(query, {limit: limit * 2}): one hit per document,
\* closest first, similarity >= threshold = 0
SemanticResultSets(lim) ==
    {s \in SeqsUpTo([id : DocIds, similarity : 0..SimScale], MaxDocs) :
        /\ Len(s) <= 2 * lim
        /\ Distinct(s, IdOf)
        /\ \A k \in 1..(Len(s) - 1) : s[k].similarity >= s[k + 1].similarity}

FuseIdle ==
    /\ sqlResults = <<>>
    /\ semanticResults = <<>>
    /\ limit = 0
    /\ merged = <<>>
    /\ fidx = 0
    /\ fpc = "idle"
    /\ fused = <<>>

FuseInit ==
    /\ limit \in 1..MaxLimit
    /\ sqlResults \in SqlResultSets(limit)
    /\ semanticResults \in SemanticResultSets(limit)
    /\ merged = <<>>
    /\ fidx = 0
    /\ fpc = "sql"
    /\ fused = <<>>

\* lines 440-442
FuseSql ==
    /\ fpc = "sql"
    /\ fidx < Len(sqlResults)
    /\ merged' = MergeSql(merged, sqlResults[fidx + 1])
    /\ fidx' = fidx + 1
    /\ UNCHANGED <<sqlResults, semanticResults, limit, fpc, fused>>
    /\ UNCHANGED notFuse

FuseSqlDone ==
    /\ fpc = "sql"
    /\ fidx = Len(sqlResults)
    /\ fpc' = "semantic"
    /\ fidx' = 0
    /\ UNCHANGED <<sqlResults, semanticResults, limit, merged, fused>>
    /\ UNCHANGED notFuse

\* lines 444-452
FuseSemantic ==
    /\ fpc = "semantic"
    /\ fidx < Len(semanticResults)
    /\ merged' = MergeSemantic(merged, semanticResults[fidx + 1])
    /\ fidx' = fidx + 1
    /\ UNCHANGED <<sqlResults, semanticResults, limit, fpc, fused>>
    /\ UNCHANGED notFuse

FuseSemanticDone ==
    /\ fpc = "semantic"
    /\ fidx = Len(semanticResults)
    /\ fpc' = "sort"
    /\ UNCHANGED <<sqlResults, semanticResults, limit, merged, fidx, fused>>
    /\ UNCHANGED notFuse

\* lines 454-457
FuseSort ==
    /\ fpc = "sort"
    /\ fused' = SortAndTruncate(merged, limit)
    /\ fpc' = "done"
    /\ UNCHANGED <<sqlResults, semanticResults, limit, merged, fidx>>
    /\ UNCHANGED notFuse

FuseNext == FuseSql \/ FuseSqlDone \/ FuseSemantic \/ FuseSemanticDone \/ FuseSort

-----------------------------------------------------------------------------
(* VectorStore over hnswlib-node's HierarchicalNSW('cosine', dimension)     *)
(* (src/src/vector/hnswlib.ts 6-122)                                        *)
(*                                                                         *)
(* The index is the map label -> vector it holds.  searchKnn is taken as   *)
(* exact; among equally distant entries any order may come back.  A hit    *)
(* carries its cosine as the exact fraction sign(dot) * dot^2 / (|q|^2 |v|^2),*)
(* written [num, den]: distance = 1 - cosine, so distance 0 is num = den   *)
(* and a smaller distance is a larger fraction.                            *)

\* the dimension the store under test is constructed with
Dimension == 2

VecIds == {1, 2, 3}

\* initialize(maxElements): the capacity, one below the number of ids in play
\* so that a full index is reached
MaxElements == Cardinality(VecIds) - 1

\* a capacity that three documents do not fill
RoomyElements == MaxElements + 1

\* getCount() up to which addVector is called
MaxAdds == 3

\* the k passed to search (a k above the capacity is refused by the library)
Ks == 1..MaxElements

Vectors == {<<1, 0>>, <<2, 0>>, <<0, 1>>}

\* a vector of another length
ShortVector == <<1>>

RECURSIVE DotUpTo(_, _, _)
DotUpTo(a, b, n) == IF n = 0 THEN 0 ELSE a[n] * b[n] + DotUpTo(a, b, n - 1)

Dot(a, b) == DotUpTo(a, b, Len(a))

\* cosine of the angle between q and v as a signed squared fraction; a zero
\* vector stays zero under the library's normalisation, giving cosine 0
Cosine(q, v) ==
    LET d  == Dot(q, v)
        nn == Dot(q, q) * Dot(v, v)
    IN  IF nn = 0 THEN [num |-> 0, den |-> 1]
        ELSE [num |-> IF d >= 0 THEN d * d ELSE -(d * d), den |-> nn]

\* c1 is at most as far as c2
NoFarther(c1, c2) == c1.num * c2.den >= c2.num * c1.den

EmptyIndex == <<>>

\* the file at indexPath
NoFile == [state |-> "absent", index |-> EmptyIndex]

CorruptFile == [state |-> "corrupt", index |-> EmptyIndex]

WrittenFile(index) == [state |-> "valid", index |-> index]

\* line 18: new VectorStore(dimension, indexPath)
\* (`maxElements` is the capacity every initialize() of this store is called
\* with; `again` is history: initialize() was called more than once)
NewStore ==
    [initialized |-> FALSE, numElements |-> 0, index |-> EmptyIndex,
     maxElements |-> MaxElements, again |-> FALSE]

\* a call and its outcome: `fresh` the store had not been initialized before the
\* call, `loaded` initialize() took the index from the file
NoCall == [op |-> "none", err |-> "none", arg |-> <<>>, k |-> 0,
           hits |-> <<>>, fresh |-> FALSE, loaded |-> FALSE]

Outcome(op, err) == [NoCall EXCEPT !.op = op, !.err = err]

\* mutant: `this.initialized = true` is reached on the two clean paths only
Initialize_CorruptNotInitialized(s, f) ==
    LET call == [Outcome("initialize", "none") EXCEPT !.fresh = ~s.initialized]
    IN  IF f.state = "valid"
        THEN [store |-> [initialized |-> TRUE,
                         numElements |-> Cardinality(DOMAIN f.index),
                         index |-> f.index,
                         maxElements |-> s.maxElements,
                         again |-> s.initialized],
              out |-> [call EXCEPT !.loaded = TRUE]]
        ELSE IF f.state = "corrupt"
        THEN [store |-> [s EXCEPT !.index = EmptyIndex, !.again = s.initialized],
              out |-> call]
        ELSE [store |-> [s EXCEPT !.initialized = TRUE, !.index = EmptyIndex,
                                  !.again = s.initialized],
              out |-> call]

\* lines 21-51.  readIndex replaces the index by the file's, initIndex by an
\* empty one (also after a failed readIndex, line 39); numElements is assigned
\* on the load path only.
Initialize(s, f) ==
    LET call == [Outcome("initialize", "none") EXCEPT !.fresh = ~s.initialized]
    IN  IF f.state = "valid"
        THEN [store |-> [initialized |-> TRUE,
                         numElements |-> Cardinality(DOMAIN f.index),
                         index |-> f.index,
                         maxElements |-> s.maxElements,
                         again |-> s.initialized],
              out |-> [call EXCEPT !.loaded = TRUE]]
        ELSE [store |-> [s EXCEPT !.initialized = TRUE, !.index = EmptyIndex,
                                  !.again = s.initialized],
              out |-> call]

\* HierarchicalNSW.addPoint(vector, label): an existing label is updated in
\* place, a new one needs room
AddPointFails(s, id) ==
    id \notin DOMAIN s.index /\ Cardinality(DOMAIN s.index) >= s.maxElements

AddPoint(index, id, v) ==
    [i \in (DOMAIN index) \cup {id} |-> IF i = id THEN v ELSE index[i]]

\* mutant: the length check of lines 58-60 is missing
AddVector_NoDimensionCheck(s, id, v) ==
    LET call == [NoCall EXCEPT !.op = "addVector", !.arg = v]
    IN  IF ~s.initialized
        THEN [store |-> s, out |-> [call EXCEPT !.err = "NotInitialized"]]
        ELSE IF AddPointFails(s, id)
        THEN [store |-> s, out |-> [call EXCEPT !.err = "AddFailed"]]
        ELSE [store |-> [s EXCEPT !.index = AddPoint(s.index, id, v),
                                  !.numElements = s.numElements + 1],
              out |-> call]

\* lines 53-70
AddVector(s, id, v) ==
    LET call == [NoCall EXCEPT !.op = "addVector", !.arg = v]
    IN  IF ~s.initialized
        THEN [store |-> s, out |-> [call EXCEPT !.err = "NotInitialized"]]
        ELSE IF Len(v) # Dimension
        THEN [store |-> s, out |-> [call EXCEPT !.err = "DimensionMismatch"]]
        ELSE IF AddPointFails(s, id)
        THEN [store |-> s, out |-> [call EXCEPT !.err = "AddFailed"]]
        ELSE [store |-> [s EXCEPT !.index = AddPoint(s.index, id, v),
                                  !.numElements = s.numElements + 1],
              out |-> call]

\* HierarchicalNSW.searchKnn(query, k): the possible answers, nearest first
SearchKnn(index, q, k) ==
    LET n == Min(k, Cardinality(DOMAIN index))
    IN  {h \in [1..n -> DOMAIN index] :
            /\ \A a, b \in 1..n : a # b => h[a] # h[b]
            /\ \A a \in 1..(n - 1) :
                   NoFarther(Cosine(q, index[h[a]]), Cosine(q, index[h[a + 1]]))
            /\ \A e \in (DOMAIN index) \ {h[a] : a \in 1..n} :
                   \A a \in 1..n : NoFarther(Cosine(q, index[h[a]]), Cosine(q, index[e]))}

\* HierarchicalNSW.searchKnn rejects a k that is not positive or exceeds the
\* capacity
SearchKnnFails(s, k) == k <= 0 \/ k > s.maxElements

\* mutant: the callback's position is taken for the label
Hits_PositionAsId(index, q, h) ==
    [a \in 1..Len(h) |-> [id |-> a, cos |-> Cosine(q, index[h[a]])]]

\* lines 91-94
Hits(index, q, h) ==
    [a \in 1..Len(h) |-> [id |-> h[a], cos |-> Cosine(q, index[h[a]])]]

\* lines 88: the k handed to searchKnn
ActualK(s, k) == Min(k, s.numElements)

\* mutant: the empty-index return of lines 81-83 is missing
Search_NoEmptyReturn(s, q, k) ==
    LET call == [NoCall EXCEPT !.op = "search", !.arg = q, !.k = k]
    IN  IF ~s.initialized THEN {[call EXCEPT !.err = "NotInitialized"]}
        ELSE IF Len(q) # Dimension THEN {[call EXCEPT !.err = "DimensionMismatch"]}
        ELSE IF SearchKnnFails(s, ActualK(s, k)) THEN {[call EXCEPT !.err = "SearchFailed"]}
        ELSE {[call EXCEPT !.hits = Hits(s.index, q, h)] :
                 h \in SearchKnn(s.index, q, ActualK(s, k))}

\* lines 72-98: the possible outcomes of search(vector, k)
Search(s, q, k) ==
    LET call == [NoCall EXCEPT !.op = "search", !.arg = q, !.k = k]
    IN  IF ~s.initialized THEN {[call EXCEPT !.err = "NotInitialized"]}
        ELSE IF Len(q) # Dimension THEN {[call EXCEPT !.err = "DimensionMismatch"]}
        ELSE IF s.numElements = 0 THEN {call}
        ELSE IF SearchKnnFails(s, ActualK(s, k)) THEN {[call EXCEPT !.err = "SearchFailed"]}
        ELSE {[call EXCEPT !.hits = Hits(s.index, q, h)] :
                 h \in SearchKnn(s.index, q, ActualK(s, k))}

\* lines 100-110; `written` says whether writeIndex succeeded
Save(s, f, written) ==
    IF ~s.initialized
    THEN [file |-> f, out |-> Outcome("save", "NotInitialized")]
    ELSE IF ~written
    THEN [file |-> f, out |-> Outcome("save", "SaveFailed")]
    ELSE [file |-> WrittenFile(s.index), out |-> Outcome("save", "none")]

\* lines 112-114
GetCount(s) == s.numElements

VSIdle ==
    /\ vs = NewStore
    /\ file = NoFile
    /\ savedCount = 0
    /\ vsOut = NoCall

VSInit ==
    /\ vs = NewStore
    /\ file \in {NoFile, CorruptFile}
    /\ savedCount = 0
    /\ vsOut = NoCall

\* a further `new VectorStore(dimension, indexPath)` on the same path
VSNew ==
    /\ vs' = NewStore
    /\ vsOut' = Outcome("new", "none")
    /\ UNCHANGED <<file, savedCount>>
    /\ UNCHANGED notVS

VSInitialize ==
    /\ vs' = Initialize(vs, file).store
    /\ vsOut' = Initialize(vs, file).out
    /\ UNCHANGED <<file, savedCount>>
    /\ UNCHANGED notVS

VSAddVector ==
    /\ vs.numElements < MaxAdds
    /\ \E id \in VecIds, v \in Vectors \cup {ShortVector} :
          /\ vs' = AddVector(vs, id, v).store
          /\ vsOut' = AddVector(vs, id, v).out
    /\ UNCHANGED <<file, savedCount>>
    /\ UNCHANGED notVS

VSSearch ==
    /\ \E q \in Vectors \cup {ShortVector}, k \in Ks :
          vsOut' \in Search(vs, q, k)
    /\ UNCHANGED <<vs, file, savedCount>>
    /\ UNCHANGED notVS

VSSave ==
    /\ \E written \in BOOLEAN :
          /\ file' = Save(vs, file, written).file
          /\ vsOut' = Save(vs, file, written).out
          /\ savedCount' = IF Save(vs, file, written).out.err # "none" THEN savedCount
                           ELSE IF vs.again THEN -1 ELSE GetCount(vs)
    /\ UNCHANGED vs
    /\ UNCHANGED notVS

VSNext == VSNew \/ VSInitialize \/ VSAddVector \/ VSSearch \/ VSSave

-----------------------------------------------------------------------------
(* KnowledgeDB (documents and embeddings tables)                            *)

MaxSeq == 3

MaxBatch == 2

\* document contents: an empty text and two texts the provider embeds
Texts == {<<>>, <<"a">>, <<"b">>}

Put(f, key, val) == [i \in (DOMAIN f) \cup {key} |-> IF i = key THEN val ELSE f[i]]

Remove(f, key) == [i \in (DOMAIN f) \ {key} |-> f[i]]

\* a database just created from the schema; `seq` is the AUTOINCREMENT counter
NewDB == [open |-> TRUE, docs |-> <<>>, embs |-> <<>>, seq |-> 0]

\* db.ts 49-66: the row gets the next AUTOINCREMENT id
InsertDocument(d, text) ==
    [d EXCEPT !.seq = d.seq + 1, !.docs = Put(d.docs, d.seq + 1, text)]

\* db.ts 69-80: INSERT OR REPLACE INTO embeddings
InsertEmbedding(d, docId, vector) ==
    [d EXCEPT !.embs = Put(d.embs, docId, vector)]

\* db.ts 146-154: result.changes > 0
Deleted(d, id) == id \in DOMAIN d.docs

\* db.ts 146-154; the embeddings row goes with the document (ON DELETE CASCADE)
DbDeleteDocument(d, id) ==
    [d EXCEPT !.docs = Remove(d.docs, id),
              !.embs = IF id \in DOMAIN d.embs THEN Remove(d.embs, id) ELSE d.embs]

-----------------------------------------------------------------------------
(* OpenAIEmbeddings, as KnowledgeBase sees it                               *)

\* `!t || t.trim().length === 0`
Blank(text) == Len(text) = 0 \/ Len(Trim(text)) = 0

\* the vector the provider answers for a text
Embedding(text) == IF text = <<"a">> THEN <<1, 0>> ELSE <<0, 1>>

ValidTexts(texts) == SelectSeq(texts, LAMBDA t : ~Blank(t))

\* embed(text) throws: empty text, or the provider failed after the retries
EmbedFails(text, ok) == Blank(text) \/ ~ok

\* embedBatch(texts) throws: all texts empty, or the provider failed
EmbedBatchFails(texts, ok) ==
    Len(texts) > 0 /\ (Len(ValidTexts(texts)) = 0 \/ ~ok)

\* embedBatch(texts): one vector per text that is not empty, in order
EmbedBatch(texts) ==
    [i \in 1..Len(ValidTexts(texts)) |-> Embedding(ValidTexts(texts)[i])]

-----------------------------------------------------------------------------
(* KnowledgeBase                                                            *)

\* a call and its outcome: `ids` the ids returned by addDocument(s), `id` the
\* argument of deleteDocument, `deleted` what deleteDocument returned, `lim`
\* and `threshold` the options of a search, `results` what search(ByVector)
\* returned, `ranked` what hybridSearch returned
NoKBCall == [op |-> "none", err |-> "none", ids |-> <<>>, id |-> 0, deleted |-> FALSE,
             lim |-> 0, threshold |-> [num |-> 0, den |-> 1],
             results |-> <<>>, ranked |-> <<>>]

Thrown(call, d, s, f, err) ==
    [db |-> d, vs |-> s, file |-> f, out |-> [call EXCEPT !.err = err]]

\* mutant: a failing addVector takes the document and its embedding row back
AddDocument_RollsBack(init, d, s, f, text, ok, written) ==
    LET call  == [NoKBCall EXCEPT !.op = "addDocument"]
        docId == d.seq + 1
        d1    == InsertDocument(d, text)
        d2    == InsertEmbedding(d1, docId, Embedding(text))
        av    == AddVector(s, docId, Embedding(text))
        sv    == Save(av.store, f, written)
    IN  IF ~init THEN Thrown(call, d, s, f, "NotInitialized")
        ELSE IF EmbedFails(text, ok) THEN Thrown(call, d, s, f, "ProviderError")
        ELSE IF ~d.open THEN Thrown(call, d, s, f, "DbFailed")
        ELSE IF av.out.err # "none" THEN Thrown(call, d, s, f, av.out.err)
        ELSE IF sv.out.err # "none" THEN Thrown(call, d2, av.store, f, sv.out.err)
        ELSE [db |-> d2, vs |-> av.store, file |-> sv.file,
              out |-> [call EXCEPT !.ids = <<docId>>]]

\* mutant: the embedding row is not written
AddDocument_NoEmbeddingRow(init, d, s, f, text, ok, written) ==
    LET call  == [NoKBCall EXCEPT !.op = "addDocument"]
        docId == d.seq + 1
        d1    == InsertDocument(d, text)
        d2    == d1
        av    == AddVector(s, docId, Embedding(text))
        sv    == Save(av.store, f, written)
    IN  IF ~init THEN Thrown(call, d, s, f, "NotInitialized")
        ELSE IF EmbedFails(text, ok) THEN Thrown(call, d, s, f, "ProviderError")
        ELSE IF ~d.open THEN Thrown(call, d, s, f, "DbFailed")
        ELSE IF av.out.err # "none" THEN Thrown(call, d2, s, f, av.out.err)
        ELSE IF sv.out.err # "none" THEN Thrown(call, d2, av.store, f, sv.out.err)
        ELSE [db |-> d2, vs |-> av.store, file |-> sv.file,
              out |-> [call EXCEPT !.ids = <<docId>>]]

\* index.ts 181-202
AddDocument(init, d, s, f, text, ok, written) ==
    LET call  == [NoKBCall EXCEPT !.op = "addDocument"]
        docId == d.seq + 1
        d1    == InsertDocument(d, text)
        d2    == InsertEmbedding(d1, docId, Embedding(text))
        av    == AddVector(s, docId, Embedding(text))
        sv    == Save(av.store, f, written)
    IN  IF ~init THEN Thrown(call, d, s, f, "NotInitialized")
        ELSE IF EmbedFails(text, ok) THEN Thrown(call, d, s, f, "ProviderError")
        ELSE IF ~d.open THEN Thrown(call, d, s, f, "DbFailed")
        ELSE IF av.out.err # "none" THEN Thrown(call, d2, s, f, av.out.err)
        ELSE IF sv.out.err # "none" THEN Thrown(call, d2, av.store, f, sv.out.err)
        ELSE [db |-> d2, vs |-> av.store, file |-> sv.file,
              out |-> [call EXCEPT !.ids = <<docId>>]]

\* index.ts 220-236: the loop from document i on; `embeddings[i]` is undefined
\* beyond the list embedBatch returned, and insertEmbedding throws on it
RECURSIVE AddLoop(_, _, _, _)
AddLoop(st, documents, embeddings, i) ==
    IF i > Len(documents) THEN st
    ELSE IF ~st.db.open THEN [st EXCEPT !.err = "DbFailed"]
    ELSE LET docId == st.db.seq + 1
             d1    == InsertDocument(st.db, documents[i])
         IN  IF i > Len(embeddings) THEN [st EXCEPT !.db = d1, !.err = "DbFailed"]
             ELSE LET d2 == InsertEmbedding(d1, docId, embeddings[i])
                      av == AddVector(st.vs, docId, embeddings[i])
                  IN  IF av.out.err # "none"
                      THEN [st EXCEPT !.db = d2, !.err = av.out.err]
                      ELSE AddLoop([db |-> d2, vs |-> av.store,
                                    ids |-> Append(st.ids, docId), err |-> "none"],
                                   documents, embeddings, i + 1)

\* index.ts 205-243
AddDocuments(init, d, s, f, documents, ok, written) ==
    LET call == [NoKBCall EXCEPT !.op = "addDocuments"]
        st   == AddLoop([db |-> d, vs |-> s, ids |-> <<>>, err |-> "none"],
                        documents, EmbedBatch(documents), 1)
        sv   == Save(st.vs, f, written)
    IN  IF ~init THEN Thrown(call, d, s, f, "NotInitialized")
        ELSE IF EmbedBatchFails(documents, ok) THEN Thrown(call, d, s, f, "ProviderError")
        ELSE IF st.err # "none" THEN Thrown(call, st.db, st.vs, f, st.err)
        ELSE IF sv.out.err # "none" THEN Thrown(call, st.db, st.vs, f, sv.out.err)
        ELSE [db |-> st.db, vs |-> st.vs, file |-> sv.file,
              out |-> [call EXCEPT !.ids = st.ids]]

\* mutant: the vector of the deleted document is taken out of the index
DeleteDocument_RemovesVector(d, s, f, id, written) ==
    LET call == [NoKBCall EXCEPT !.op = "deleteDocument", !.id = id]
        s1   == IF id \in DOMAIN s.index
                THEN [s EXCEPT !.index = Remove(s.index, id),
                               !.numElements = s.numElements - 1]
                ELSE s
        sv   == Save(s1, f, written)
    IN  IF ~d.open THEN Thrown(call, d, s, f, "DbFailed")
        ELSE IF ~Deleted(d, id) THEN [db |-> d, vs |-> s, file |-> f, out |-> call]
        ELSE IF sv.out.err # "none"
        THEN Thrown(call, DbDeleteDocument(d, id), s1, f, sv.out.err)
        ELSE [db |-> DbDeleteDocument(d, id), vs |-> s1, file |-> sv.file,
              out |-> [call EXCEPT !.deleted = TRUE]]

\* index.ts 264-276: no ensureInitialized(); the index is saved, not changed
DeleteDocument(d, s, f, id, written) ==
    LET call == [NoKBCall EXCEPT !.op = "deleteDocument", !.id = id]
        sv   == Save(s, f, written)
    IN  IF ~d.open THEN Thrown(call, d, s, f, "DbFailed")
        ELSE IF ~Deleted(d, id) THEN [db |-> d, vs |-> s, file |-> f, out |-> call]
        ELSE IF sv.out.err # "none"
        THEN Thrown(call, DbDeleteDocument(d, id), s, f, sv.out.err)
        ELSE [db |-> DbDeleteDocument(d, id), vs |-> s, file |-> sv.file,
              out |-> [call EXCEPT !.deleted = TRUE]]

\* index.ts 482-491: a failing save is logged and db.close() is not reached
Close(init, d, s, f, written) ==
    LET call == [NoKBCall EXCEPT !.op = "close"]
        sv   == Save(s, f, written)
    IN  IF init /\ sv.out.err # "none"
        THEN [db |-> d, vs |-> s, file |-> f, out |-> call]
        ELSE [db |-> [d EXCEPT !.open = FALSE], vs |-> s,
              file |-> IF init THEN sv.file ELSE f, out |-> call]

\* index.ts 464-476
GetStats(d, s) ==
    [documents |-> Cardinality(DOMAIN d.docs),
     embeddings |-> Cardinality(DOMAIN d.embs),
     vectorCount |-> GetCount(s)]

\* the history of additions after a call with outcome `out`
Counted(count, out) ==
    IF count >= 0 /\ out.err = "none" THEN count + Len(out.ids) ELSE -1

KBIdle ==
    /\ kbInitialized = FALSE
    /\ db = NewDB
    /\ kbOut = NoKBCall
    /\ addedCount = 0

\* new KnowledgeBase(config) on fresh paths
KBInit ==
    /\ kbInitialized = FALSE
    /\ db = NewDB
    /\ kbOut = NoKBCall
    /\ addedCount = 0
    /\ vs = NewStore
    /\ file \in {NoFile, CorruptFile}
    /\ savedCount = 0
    /\ vsOut = NoCall

\* index.ts 165-172
KBInitialize ==
    /\ vs' = Initialize(vs, file).store
    /\ kbInitialized' = TRUE
    /\ kbOut' = [NoKBCall EXCEPT !.op = "initialize"]
    /\ addedCount' = IF kbInitialized THEN -1 ELSE addedCount
    /\ UNCHANGED <<db, file>>
    /\ UNCHANGED notKB

KBAddDocument ==
    /\ db.seq < MaxSeq
    /\ \E text \in Texts, ok \in BOOLEAN, written \in BOOLEAN :
          LET r == AddDocument(kbInitialized, db, vs, file, text, ok, written)
          IN  /\ db' = r.db
              /\ vs' = r.vs
              /\ file' = r.file
              /\ kbOut' = r.out
              /\ addedCount' = Counted(addedCount, r.out)
    /\ UNCHANGED kbInitialized
    /\ UNCHANGED notKB

KBAddDocuments ==
    /\ \E documents \in SeqsUpTo(Texts, MaxBatch), ok \in BOOLEAN, written \in BOOLEAN :
          /\ db.seq + Len(documents) <= MaxSeq
          /\ LET r == AddDocuments(kbInitialized, db, vs, file, documents, ok, written)
             IN  /\ db' = r.db
                 /\ vs' = r.vs
                 /\ file' = r.file
                 /\ kbOut' = r.out
                 /\ addedCount' = Counted(addedCount, r.out)
    /\ UNCHANGED kbInitialized
    /\ UNCHANGED notKB

KBDeleteDocument ==
    /\ \E id \in 1..MaxSeq, written \in BOOLEAN :
          LET r == DeleteDocument(db, vs, file, id, written)
          IN  /\ db' = r.db
              /\ vs' = r.vs
              /\ file' = r.file
              /\ kbOut' = r.out
    /\ addedCount' = -1
    /\ UNCHANGED kbInitialized
    /\ UNCHANGED notKB

KBClose ==
    /\ \E written \in BOOLEAN :
          LET r == Close(kbInitialized, db, vs, file, written)
          IN  /\ db' = r.db
              /\ vs' = r.vs
              /\ file' = r.file
              /\ kbOut' = r.out
    /\ addedCount' = -1
    /\ UNCHANGED kbInitialized
    /\ UNCHANGED notKB

-----------------------------------------------------------------------------
(* KnowledgeBase: search, searchByVector, hybridSearch                      *)
(*                                                                         *)
(* The provider's vectors of this model are parallel or orthogonal, so the *)
(* cosine of a hit is 0 or 1 and its fraction [num, den] is the similarity *)
(* 1 - distance itself.                                                    *)

\* options.threshold, as a fraction
Thresholds == {[num |-> 0, den |-> 1], [num |-> 1, den |-> 1]}

\* mutant: every id resolves
GetDocument_AlwaysFound(d, id) == id = id

\* db.ts 100-121: getDocument(id) finds a row
GetDocument(d, id) == id \in DOMAIN d.docs

\* index.ts 287-303: the loop over the hits from hit i on
RECURSIVE ResultLoop(_, _, _, _, _, _)
ResultLoop(d, hits, lim, threshold, i, results) ==
    IF i > Len(hits) THEN results
    ELSE IF ~GetDocument(d, hits[i].id)
    THEN ResultLoop(d, hits, lim, threshold, i + 1, results)
    ELSE IF ~NoFarther(hits[i].cos, threshold)
    THEN ResultLoop(d, hits, lim, threshold, i + 1, results)
    ELSE IF Len(results) + 1 >= lim THEN Append(results, hits[i])
    ELSE ResultLoop(d, hits, lim, threshold, i + 1, Append(results, hits[i]))

\* mutant: the threshold test of the loop is missing
VectorResults_NoThreshold(call, d, s, vector, lim, threshold) ==
    {IF o.err # "none" THEN [call EXCEPT !.err = o.err]
     ELSE IF Len(o.hits) > 0 /\ ~d.open THEN [call EXCEPT !.err = "DbFailed"]
     ELSE [call EXCEPT !.results =
              ResultLoop(d, o.hits, lim, [num |-> -1, den |-> 1], 1, <<>>)] :
        o \in Search(s, vector, lim * 2)}

\* index.ts 315-340 (and 282-308): the possible outcomes from
\* vectorStore.search on; getDocument needs the database open
VectorResults(call, d, s, vector, lim, threshold) ==
    {IF o.err # "none" THEN [call EXCEPT !.err = o.err]
     ELSE IF Len(o.hits) > 0 /\ ~d.open THEN [call EXCEPT !.err = "DbFailed"]
     ELSE [call EXCEPT !.results = ResultLoop(d, o.hits, lim, threshold, 1, <<>>)] :
        o \in Search(s, vector, lim * 2)}

\* index.ts 279-309
KBSearch(init, d, s, query, ok, lim, threshold) ==
    LET call == [NoKBCall EXCEPT !.op = "search", !.lim = lim, !.threshold = threshold]
    IN  IF ~init THEN {[call EXCEPT !.err = "NotInitialized"]}
        ELSE IF EmbedFails(query, ok) THEN {[call EXCEPT !.err = "ProviderError"]}
        ELSE VectorResults(call, d, s, Embedding(query), lim, threshold)

\* index.ts 312-340
SearchByVector(init, d, s, vector, lim, threshold) ==
    LET call == [NoKBCall EXCEPT !.op = "searchByVector", !.lim = lim,
                                 !.threshold = threshold]
    IN  IF ~init THEN {[call EXCEPT !.err = "NotInitialized"]}
        ELSE VectorResults(call, d, s, vector, lim, threshold)

\* db.ts 168-190: the rows whose content matches, in rank order (rows of equal
\* rank in any order), at most lim of them
FulltextSearch(d, query, lim) ==
    LET match == {id \in DOMAIN d.docs : d.docs[id] = query}
    IN  {Slice(s, lim) : s \in {t \in [1..Cardinality(match) -> match] : Distinct(t, Self)}}

\* similarity of a hit in units of 1/(2 SimScale): similarity * 0.5
HalfSimilarity(cos) == (SimScale * cos.num) \div cos.den

RECURSIVE FoldSql(_, _, _)
FoldSql(m, rows, i) ==
    IF i > Len(rows) THEN m ELSE FoldSql(MergeSql(m, rows[i]), rows, i + 1)

RECURSIVE FoldSemantic(_, _, _)
FoldSemantic(m, results, i) ==
    IF i > Len(results) THEN m
    ELSE FoldSemantic(MergeSemantic(m, [id |-> results[i].id,
                                        similarity |-> HalfSimilarity(results[i].cos)]),
                      results, i + 1)

\* index.ts 427-461; an empty MATCH expression is a syntax error of the
\* full-text engine
HybridSearch(init, d, s, sqlQuery, semanticQuery, ok, lim) ==
    LET call == [NoKBCall EXCEPT !.op = "hybridSearch", !.lim = lim]
    IN  IF ~init THEN {[call EXCEPT !.err = "NotInitialized"]}
        ELSE IF ~d.open THEN {[call EXCEPT !.err = "DbFailed"]}
        ELSE IF Blank(sqlQuery) THEN {[call EXCEPT !.err = "MatchFailed"]}
        ELSE {IF sem.err # "none" THEN [call EXCEPT !.err = sem.err]
              ELSE [call EXCEPT !.ranked =
                       SortAndTruncate(FoldSemantic(FoldSql(<<>>, rows, 1), sem.results, 1),
                                       lim)] :
                 rows \in FulltextSearch(d, sqlQuery, lim * 2),
                 sem \in KBSearch(init, d, s, semanticQuery, ok, lim * 2,
                                  [num |-> 0, den |-> 1])}

KBSearchCall ==
    /\ \E query \in Texts, ok \in BOOLEAN, lim \in 1..MaxLimit, threshold \in Thresholds :
          kbOut' \in KBSearch(kbInitialized, db, vs, query, ok, lim, threshold)
    /\ UNCHANGED <<kbInitialized, db, vs, file, addedCount>>
    /\ UNCHANGED notKB

KBSearchByVector ==
    /\ \E vector \in Vectors \cup {ShortVector}, lim \in 1..MaxLimit,
          threshold \in Thresholds :
          kbOut' \in SearchByVector(kbInitialized, db, vs, vector, lim, threshold)
    /\ UNCHANGED <<kbInitialized, db, vs, file, addedCount>>
    /\ UNCHANGED notKB

KBHybridSearch ==
    /\ \E sqlQuery \in Texts, semanticQuery \in Texts, ok \in BOOLEAN, lim \in 1..MaxLimit :
          kbOut' \in HybridSearch(kbInitialized, db, vs, sqlQuery, semanticQuery, ok, lim)
    /\ UNCHANGED <<kbInitialized, db, vs, file, addedCount>>
    /\ UNCHANGED notKB

KBNext == KBInitialize \/ KBAddDocument \/ KBAddDocuments \/ KBDeleteDocument \/ KBClose

\* the queries, over a knowledge base that documents are added to one at a
\* time and deleted from
SearchNext ==
    \/ KBInitialize
    \/ KBAddDocument
    \/ KBDeleteDocument
    \/ KBSearchCall
    \/ KBSearchByVector
    \/ KBHybridSearch

\* new KnowledgeBase(config) on fresh paths, its index with room for more
\* entries than a search asks for
StaleInit ==
    /\ kbInitialized = FALSE
    /\ db = NewDB
    /\ kbOut = NoKBCall
    /\ addedCount = 0
    /\ vs = [NewStore EXCEPT !.maxElements = RoomyElements]
    /\ file \in {NoFile, CorruptFile}
    /\ savedCount = 0
    /\ vsOut = NoCall

\* search over a knowledge base that documents are added to and deleted from
StaleNext == KBInitialize \/ KBAddDocument \/ KBDeleteDocument \/ KBSearchCall

-----------------------------------------------------------------------------
(* KnowledgeDB: the named_vectors table (src/src/database/db.ts 193-251)    *)
(*                                                                         *)
(* A Float32Array is a view on an ArrayBuffer: [buffer, offset, length] in *)
(* elements.  The table is the list of its rows in rowid order.            *)

Handles == {"h1", "h2"}

\* an argument that was not given, and SQL NULL
Undefined == "<undefined>"

Null == "<null>"

Descriptions == {Undefined, "", "d"}

\* new Float32Array(elements): a view on the whole of its own buffer
OwnView(elements) == [buffer |-> elements, offset |-> 0, length |-> Len(elements)]

\* the vectors handed to saveNamedVector: two made from element lists and
\* one taken with subarray(0, 2) from a longer array
Float32Arrays ==
    {OwnView(<<1, 0>>), OwnView(<<0, 1>>),
     [buffer |-> <<1, 0, 0, 1>>, offset |-> 0, length |-> 2]}

\* the elements a Float32Array shows
Elements(view) == SubSeq(view.buffer, view.offset + 1, view.offset + view.length)

\* db.ts 200: Buffer.from(vector.buffer), the bytes of the whole ArrayBuffer
\* (here: its elements)
BufferFrom(view) == view.buffer

\* db.ts 200: description || null
DescriptionOrNull(description) ==
    IF description = Undefined \/ description = "" THEN Null ELSE description

\* db.ts 193-204: INSERT OR REPLACE deletes the row of the handle, if any, and
\* inserts the new row
SaveNamedVector(rows, handle, vector, description) ==
    Append(SelectSeq(rows, LAMBDA r : r.handle # handle),
           [handle |-> handle, vector |-> BufferFrom(vector),
            description |-> DescriptionOrNull(description)])

\* db.ts 216-220: a row read back; new Float32Array(row.vector.buffer)
NamedVectorOf(row) ==
    [handle |-> row.handle, vector |-> OwnView(row.vector), description |-> row.description]

\* db.ts 206-224: the rows getNamedVector(handle) picks from (none: null)
GetNamedVector(rows, handle) ==
    LET found == SelectSeq(rows, LAMBDA r : r.handle = handle)
    IN  IF Len(found) = 0 THEN <<>> ELSE <<NamedVectorOf(found[1])>>

\* db.ts 226-241
GetAllNamedVectors(rows) == [k \in 1..Len(rows) |-> NamedVectorOf(rows[k])]

\* db.ts 243-251: result.changes > 0
NamedVectorDeleted(rows, handle) == \E k \in 1..Len(rows) : rows[k].handle = handle

DeleteNamedVector(rows, handle) == SelectSeq(rows, LAMBDA r : r.handle # handle)

\* a call and its outcome; `present` is history: the handle had a row before
\* the call
NoNVCall == [op |-> "none", handle |-> "", present |-> FALSE, deleted |-> FALSE]

NVIdle ==
    /\ namedVectors = <<>>
    /\ lastSaved = <<>>
    /\ nvOut = NoNVCall

NVInit ==
    /\ namedVectors = <<>>
    /\ lastSaved = <<>>
    /\ nvOut = NoNVCall

NVSave ==
    /\ \E handle \in Handles, vector \in Float32Arrays, description \in Descriptions :
          /\ namedVectors' = SaveNamedVector(namedVectors, handle, vector, description)
          /\ lastSaved' = Put(lastSaved, handle,
                              [elements |-> Elements(vector), description |-> description])
          /\ nvOut' = [NoNVCall EXCEPT !.op = "saveNamedVector", !.handle = handle,
                          !.present = handle \in DOMAIN lastSaved]
    /\ UNCHANGED notNV

NVDelete ==
    /\ \E handle \in Handles :
          /\ namedVectors' = DeleteNamedVector(namedVectors, handle)
          /\ lastSaved' = IF handle \in DOMAIN lastSaved THEN Remove(lastSaved, handle)
                          ELSE lastSaved
          /\ nvOut' = [NoNVCall EXCEPT !.op = "deleteNamedVector", !.handle = handle,
                          !.present = handle \in DOMAIN lastSaved,
                          !.deleted = NamedVectorDeleted(namedVectors, handle)]
    /\ UNCHANGED notNV

NVNext == NVSave \/ NVDelete

-----------------------------------------------------------------------------
(* Vector algebra: VectorStore.add / subtract / normalize                   *)
(* (src/src/vector/hnswlib.ts 125-169) and KnowledgeBase.vectorAlgebra      *)
(* (src/src/index.ts 385-412)                                              *)
(*                                                                         *)
(* Numbers are exact fractions [n, d] in lowest terms with d > 0.  The     *)
(* named vectors of this model are multiples of (3, 4), so every magnitude *)
(* the code takes a square root for is a fraction itself.                  *)

RECURSIVE Gcd(_, _)
Gcd(a, b) == IF b = 0 THEN a ELSE Gcd(b, a % b)

Abs(x) == IF x < 0 THEN -x ELSE x

Frac(n, d) ==
    LET g == Gcd(Abs(n), Abs(d))
        sgn == IF d < 0 THEN -1 ELSE 1
    IN  [n |-> sgn * (n \div g), d |-> sgn * (d \div g)]

Whole(i) == [n |-> i, d |-> 1]

FPlus(x, y) == Frac(x.n * y.d + y.n * x.d, x.d * y.d)

FMinus(x, y) == Frac(x.n * y.d - y.n * x.d, x.d * y.d)

FTimes(x, y) == Frac(x.n * y.n, x.d * y.d)

FOver(x, y) == Frac(x.n * y.d, x.d * y.n)

\* the largest r with r * r <= i
Isqrt(i) == CHOOSE r \in 0..i : r * r <= i /\ (r + 1) * (r + 1) > i

\* Math.sqrt on a fraction whose terms are squares
Sqrt(x) == [n |-> Isqrt(x.n), d |-> Isqrt(x.d)]

RECURSIVE SumOfSquares(_, _)
SumOfSquares(v, i) ==
    IF i = 0 THEN Whole(0) ELSE FPlus(FTimes(v[i], v[i]), SumOfSquares(v, i - 1))

\* hnswlib.ts 157-169
Normalize(v) ==
    LET magnitude == Sqrt(SumOfSquares(v, Len(v)))
    IN  IF magnitude.n = 0 THEN v
        ELSE [i \in 1..Len(v) |-> FOver(v[i], magnitude)]

\* hnswlib.ts 125-135 (vectors of one length)
Add(v1, v2, weight) ==
    Normalize([i \in 1..Len(v1) |-> FPlus(v1[i], FTimes(weight, v2[i]))])

\* hnswlib.ts 137-147 (vectors of one length)
Subtract(v1, v2, weight) ==
    Normalize([i \in 1..Len(v1) |-> FMinus(v1[i], FTimes(weight, v2[i]))])

MaxOps == 3

\* the handles of the operations: two that resolve and one that does not
AlgebraHandles == {"p", "q", "missing"}

\* db.getNamedVector(handle).vector, for a handle that resolves
NamedVector(handle) ==
    IF handle = "p" THEN <<Whole(3), Whole(4)>> ELSE <<Whole(-6), Whole(-8)>>

Resolves(handle) == handle # "missing"

Weights == {Whole(0), Whole(2)}

\* a VectorOperation: the weight is optional
VectorOperations ==
    [type : {"add", "subtract", "multiply"}, handle : AlgebraHandles]
        \cup [type : {"add", "subtract", "multiply"}, handle : AlgebraHandles,
              weight : Weights]

\* index.ts 399, 402: op.weight || 1.0
WeightOrOne(op) ==
    IF "weight" \notin DOMAIN op \/ op.weight.n = 0 THEN Whole(1) ELSE op.weight

\* index.ts 397-404: the switch
Apply(result, op) ==
    IF op.type = "add" THEN Add(result, NamedVector(op.handle), WeightOrOne(op))
    ELSE IF op.type = "subtract"
    THEN Subtract(result, NamedVector(op.handle), WeightOrOne(op))
    ELSE result

VAIdle ==
    /\ operations = <<>>
    /\ vaIdx = 0
    /\ vaResult = <<>>
    /\ vaPc = "idle"

\* vectorAlgebra(operations) is called; `result` is null
VAInit ==
    /\ operations \in SeqsUpTo(VectorOperations, MaxOps)
    /\ vaIdx = 0
    /\ vaResult = <<>>
    /\ vaPc = "loop"

\* index.ts 390-392: the handle of the next operation does not resolve
VANotFound ==
    /\ vaPc = "loop"
    /\ vaIdx < Len(operations)
    /\ ~Resolves(operations[vaIdx + 1].handle)
    /\ vaPc' = "HandleNotFound"
    /\ UNCHANGED <<operations, vaIdx, vaResult>>
    /\ UNCHANGED notVA

\* index.ts 394-397: the first operation seeds the accumulator
VASeed ==
    /\ vaPc = "loop"
    /\ vaIdx < Len(operations)
    /\ Resolves(operations[vaIdx + 1].handle)
    /\ vaResult = <<>>
    /\ vaResult' = <<NamedVector(operations[vaIdx + 1].handle)>>
    /\ vaIdx' = vaIdx + 1
    /\ UNCHANGED <<operations, vaPc>>
    /\ UNCHANGED notVA

\* index.ts 399-406
VAApply ==
    /\ vaPc = "loop"
    /\ vaIdx < Len(operations)
    /\ Resolves(operations[vaIdx + 1].handle)
    /\ vaResult # <<>>
    /\ vaResult' = <<Apply(vaResult[1], operations[vaIdx + 1])>>
    /\ vaIdx' = vaIdx + 1
    /\ UNCHANGED <<operations, vaPc>>
    /\ UNCHANGED notVA

\* index.ts 408: return result (null for an empty list)
VAReturn ==
    /\ vaPc = "loop"
    /\ vaIdx = Len(operations)
    /\ vaPc' = "done"
    /\ UNCHANGED <<operations, vaIdx, vaResult>>
    /\ UNCHANGED notVA

VANext == VANotFound \/ VASeed \/ VAApply \/ VAReturn

-----------------------------------------------------------------------------
(* OpenAIEmbeddings.embedBatchWithRetry (src/src/vector/hnswlib.ts 824-906) *)
(*                                                                         *)
(* One request per step.  What the provider answers is an input: a         *)
(* response with a status and the text of its error message, or a failed   *)
(* fetch with the text of the error thrown.  A text is represented by the  *)
(* set of the keywords of isRetryableError its lower-cased form contains.  *)

RetryLimit == 3

\* options.retryDelay in ms; 1000 is the default
RetryDelays == {1, 1000}

RetryableWords == {"network", "timeout", "econnrefused", "enotfound"}

ErrorTexts == {{}, {"timeout"}, {"network"}}

Statuses == {200, 400, 401, 429, 500, 503}

\* kind "response": fetch resolved; kind "thrown": fetch rejected
Responses ==
    [kind : {"response"}, status : Statuses, text : ErrorTexts]
        \cup [kind : {"thrown"}, status : {0}, text : ErrorTexts]

NoResponse == [kind |-> "none", status |-> 0, text |-> {}]

RECURSIVE Pow2(_)
Pow2(n) == IF n = 0 THEN 1 ELSE 2 * Pow2(n - 1)

\* lines 859, 867, 889: this.retryDelay * Math.pow(2, attempt)
Delay(delay, n) == delay * Pow2(n)

\* lines 898-906; the message `OpenAI API error (status): text` of line 872
\* contains a keyword exactly when the text does
IsRetryableError(text) == text \cap RetryableWords # {}

\* lines 845-892: the call of attempt n goes on to attempt n + 1.  The error
\* thrown at line 872 is caught at line 886 of the same call.
RetriesAfter(resp, n, max) ==
    IF resp.kind = "response" /\ resp.status < 400 THEN FALSE
    ELSE IF resp.kind = "response" /\ resp.status = 429 /\ n < max THEN TRUE
    ELSE IF resp.kind = "response" /\ resp.status >= 500 /\ n < max THEN TRUE
    ELSE n < max /\ IsRetryableError(resp.text)

RetryIdle ==
    /\ maxRetries = 0
    /\ retryDelay = 0
    /\ attempt = 0
    /\ requests = 0
    /\ delays = <<>>
    /\ response = NoResponse
    /\ rpc = "idle"

\* embedBatchWithRetry(texts) is called, attempt = 0
RetryInit ==
    /\ maxRetries \in 0..RetryLimit
    /\ retryDelay \in RetryDelays
    /\ attempt = 0
    /\ requests = 0
    /\ delays = <<>>
    /\ response = NoResponse
    /\ rpc = "call"

\* lines 875-883: the response is ok
RetrySuccess ==
    /\ rpc = "call"
    /\ \E resp \in Responses :
          /\ resp.kind = "response" /\ resp.status < 400
          /\ response' = resp
    /\ requests' = requests + 1
    /\ rpc' = "done"
    /\ UNCHANGED <<maxRetries, retryDelay, attempt, delays>>
    /\ UNCHANGED notRetry

\* lines 858-870, 887-892: sleep, then the call of the next attempt
RetryAgain ==
    /\ rpc = "call"
    /\ \E resp \in Responses :
          /\ ~(resp.kind = "response" /\ resp.status < 400)
          /\ RetriesAfter(resp, attempt, maxRetries)
          /\ response' = resp
    /\ requests' = requests + 1
    /\ delays' = Append(delays, Delay(retryDelay, attempt))
    /\ attempt' = attempt + 1
    /\ UNCHANGED <<maxRetries, retryDelay, rpc>>
    /\ UNCHANGED notRetry

\* line 894: throw new Error(`Failed to get embeddings: ...`)
RetryFail ==
    /\ rpc = "call"
    /\ \E resp \in Responses :
          /\ ~(resp.kind = "response" /\ resp.status < 400)
          /\ ~RetriesAfter(resp, attempt, maxRetries)
          /\ response' = resp
    /\ requests' = requests + 1
    /\ rpc' = "failed"
    /\ UNCHANGED <<maxRetries, retryDelay, attempt, delays>>
    /\ UNCHANGED notRetry

RetryNext == RetrySuccess \/ RetryAgain \/ RetryFail

-----------------------------------------------------------------------------
(* Specifications                                                           *)

InitChunk ==
    /\ ChunkInit
    /\ FuseIdle
    /\ VSIdle
    /\ KBIdle
    /\ NVIdle
    /\ VAIdle
    /\ RetryIdle

SpecChunk == InitChunk /\ [][ChunkNext]_vars

InitFuse ==
    /\ FuseInit
    /\ ChunkIdle
    /\ VSIdle
    /\ KBIdle
    /\ NVIdle
    /\ VAIdle
    /\ RetryIdle

SpecFuse == InitFuse /\ [][FuseNext]_vars

InitVS ==
    /\ VSInit
    /\ ChunkIdle
    /\ FuseIdle
    /\ KBIdle
    /\ NVIdle
    /\ VAIdle
    /\ RetryIdle

SpecVS == InitVS /\ [][VSNext]_vars

InitKB ==
    /\ KBInit
    /\ ChunkIdle
    /\ FuseIdle
    /\ NVIdle
    /\ VAIdle
    /\ RetryIdle

SpecKB == InitKB /\ [][KBNext]_vars

InitSearch ==
    /\ KBInit
    /\ ChunkIdle
    /\ FuseIdle
    /\ NVIdle
    /\ VAIdle
    /\ RetryIdle

SpecSearch == InitSearch /\ [][SearchNext]_vars

InitNV ==
    /\ NVInit
    /\ ChunkIdle
    /\ FuseIdle
    /\ VSIdle
    /\ KBIdle
    /\ VAIdle
    /\ RetryIdle

SpecNV == InitNV /\ [][NVNext]_vars

InitAlgebra ==
    /\ VAInit
    /\ ChunkIdle
    /\ FuseIdle
    /\ VSIdle
    /\ KBIdle
    /\ NVIdle
    /\ RetryIdle

SpecAlgebra == InitAlgebra /\ [][VANext]_vars

InitRetry ==
    /\ RetryInit
    /\ ChunkIdle
    /\ FuseIdle
    /\ VSIdle
    /\ KBIdle
    /\ NVIdle
    /\ VAIdle

SpecRetry == InitRetry /\ [][RetryNext]_vars

InitStale ==
    /\ StaleInit
    /\ ChunkIdle
    /\ FuseIdle
    /\ NVIdle
    /\ VAIdle
    /\ RetryIdle

SpecStale == InitStale /\ [][StaleNext]_vars

-----------------------------------------------------------------------------
(* Claims about chunkDocument                                               *)

\* C1: with chunkSize > 0 and 0 <= overlap < chunkSize, every iteration of the
\* loop strictly increases `position` (so the loop reaches content.length and
\* chunkDocument terminates).
C1_PositionStrictlyIncreases ==
    [][(overlap < chunkSize /\ chunks' # chunks) => position' > position]_vars

\* C2: whenever chunkDocument returns with overlap < chunkSize, every character
\* position of content lies inside the source range of at least one chunk.
C2_ChunksCoverContent ==
    (cpc = "done" /\ overlap < chunkSize /\ Len(content) > chunkSize)
        => \A i \in 0..(Len(content) - 1) :
               \E k \in 1..Len(ranges) : ranges[k][1] <= i /\ i < ranges[k][2]

\* C14 (as stated): for content.length <= chunkSize, chunkDocument returns
\* exactly one chunk, the input with leading and trailing whitespace trimmed.
C14_ShortContentTrimmed ==
    (cpc = "done" /\ Len(content) <= chunkSize) => returned = <<Trim(content)>>

\* C14 (amended): for content.length <= chunkSize, chunkDocument returns
\* exactly one chunk, the input as it is, whitespace included.
C14_ShortContentAsIs ==
    (cpc = "done" /\ Len(content) <= chunkSize) => returned = <<content>>

\* a short content with whitespace at an end was returned
C14_Witness ==
    /\ cpc = "done"
    /\ Len(content) <= chunkSize
    /\ Trim(content) # content
    /\ Len(Trim(content)) > 0
    /\ Len(returned) = 1

\* C21: with overlap > 0, the source range of every non-initial chunk starts
\* exactly `overlap` characters before the end of the source range of the
\* chunk before it.
C21_OverlapReincluded ==
    overlap > 0 =>
        \A k \in 2..Len(ranges) : ranges[k][1] = ranges[k - 1][2] - overlap

\* C22: every string chunkDocument returns has length > 0, for every content
\* (the empty string and content no longer than chunkSize included).
C22_NoEmptyChunk ==
    cpc = "done" => \A k \in 1..Len(returned) : Len(returned[k]) > 0

-----------------------------------------------------------------------------
(* Claims about hybridSearch                                                *)

SqlIds == {sqlResults[k] : k \in 1..Len(sqlResults)}

SemanticIds == {semanticResults[k].id : k \in 1..Len(semanticResults)}

SimilarityOf(id) ==
    (CHOOSE r \in {semanticResults[k] : k \in 1..Len(semanticResults)} : r.id = id).similarity

\* the combined score the fusion formula gives document `id`
ExpectedScore(id) ==
    IF id \in SqlIds /\ id \in SemanticIds THEN Half + SimilarityOf(id)
    ELSE IF id \in SqlIds THEN Half
    ELSE SimilarityOf(id)

\* C3: before truncation the merge holds exactly one entry per distinct id of
\* the union of the lexical and the semantic result set, scored 0.5 (lexical
\* only, whatever the rank), 0.5 * similarity (semantic only) or
\* 0.5 + 0.5 * similarity (both).
C3_MergeScores ==
    fpc \in {"sort", "done"} =>
        /\ {merged[k].id : k \in 1..Len(merged)} = SqlIds \cup SemanticIds
        /\ Len(merged) = Cardinality(SqlIds \cup SemanticIds)
        /\ \A k \in 1..Len(merged) : merged[k].score = ExpectedScore(merged[k].id)

C3_Witness ==
    /\ fpc = "sort"
    /\ \E a \in SqlIds \cap SemanticIds : SimilarityOf(a) > 0
    /\ \E k \in 2..Len(sqlResults) : sqlResults[k] \notin SemanticIds
    /\ \E c \in SemanticIds \ SqlIds : SimilarityOf(c) > 0

\* C4 as stated: at most `limit` entries, every adjacent pair strictly descending.
C4_StrictlyDescending ==
    fpc = "done" =>
        /\ Len(fused) <= limit
        /\ \A k \in 1..(Len(fused) - 1) : fused[k].score > fused[k + 1].score

\* C4 (amended): the list hybridSearch returns has at most `limit` entries and
\* is sorted by non-increasing combined score; equal scores do occur.
C4_SortedNonIncreasing ==
    fpc = "done" =>
        /\ Len(fused) <= limit
        /\ \A k \in 1..(Len(fused) - 1) : fused[k].score >= fused[k + 1].score

C4_Witness ==
    /\ fpc = "done"
    /\ Len(merged) > limit
    /\ Len(fused) = limit
    /\ \E k \in 1..(Len(fused) - 1) : fused[k].score = fused[k + 1].score
    /\ \E k \in 1..(Len(merged) - 1) : merged[k].score < merged[k + 1].score

InBoth == SqlIds \cap SemanticIds

PositionIn(s, x) == CHOOSE k \in 1..Len(s) : s[k] = x

\* the place of a document in the processing order: the lexical hits in rank
\* order, then the semantic hits that are not lexical hits, in their order
ProcessingOrder(id) ==
    IF id \in SqlIds THEN PositionIn(sqlResults, id)
    ELSE Len(sqlResults)
            + PositionIn([k \in 1..Len(semanticResults) |-> semanticResults[k].id], id)

\* C20: among the entries of equal combined score that hybridSearch returns,
\* the documents of the lexical list come in their lexical rank order and
\* before every semantic-only document, and the semantic-only documents keep
\* the order of the semantic list.
C20_TiesInProcessingOrder ==
    fpc = "done" =>
        \A i, j \in 1..Len(fused) :
            (i < j /\ fused[i].score = fused[j].score)
                => ProcessingOrder(fused[i].id) < ProcessingOrder(fused[j].id)

\* the sort moved an entry, and two lexical hits of the same score came out
\* in rank order
C20_Witness ==
    /\ fpc = "done"
    /\ \E k \in 1..(Len(merged) - 1) : merged[k].score < merged[k + 1].score
    /\ \E i, j \in 1..Len(fused) :
          /\ i < j
          /\ fused[i].score = fused[j].score
          /\ fused[i].id \in SqlIds
          /\ fused[j].id \in SqlIds

\* a lexical hit came out before a semantic-only document of the same score
C20_WitnessSemanticOnly ==
    /\ fpc = "done"
    /\ \E i, j \in 1..Len(fused) :
          /\ i < j
          /\ fused[i].score = fused[j].score
          /\ fused[i].id \in SqlIds
          /\ fused[j].id \notin SqlIds

-----------------------------------------------------------------------------
(* Claims about VectorStore                                                 *)

Queries == Vectors

\* the hit lists search(q, k) can return on store s
HitLists(s, q, k) == {o.hits : o \in Search(s, q, k)}

\* the store as it was when it wrote the file
SavedStore ==
    [initialized |-> TRUE, numElements |-> savedCount, index |-> file.index,
     maxElements |-> MaxElements, again |-> FALSE]

\* C5: after addVector calls and save() on a store (initialized once), a new
\* VectorStore that initialize()s on the same path reports the getCount() of
\* the store that saved and returns the same hits for the same query vector
\* and k.
C5_RoundTrip ==
    (vsOut.op = "initialize" /\ vsOut.fresh /\ vsOut.loaded /\ savedCount >= 0) =>
        /\ GetCount(vs) = savedCount
        /\ \A q \in Queries, k \in Ks : HitLists(vs, q, k) = HitLists(SavedStore, q, k)

\* k pairwise distinct vectors were inserted under k distinct ids
DistinctInserted(s) ==
    /\ s.initialized
    /\ GetCount(s) = Cardinality(DOMAIN s.index)
    /\ \A i, j \in DOMAIN s.index : i # j => s.index[i] # s.index[j]

SameDirection(a, b) == Cosine(a, b).num = Cosine(a, b).den

\* the search just made was search(v, 1) for an inserted vector v
SearchedInserted ==
    /\ vsOut.op = "search"
    /\ vsOut.k = 1
    /\ \E i \in DOMAIN vs.index : vs.index[i] = vsOut.arg

FoundItself ==
    /\ vsOut.err = "none"
    /\ Len(vsOut.hits) = 1
    /\ vsOut.hits[1].id \in DOMAIN vs.index
    /\ vs.index[vsOut.hits[1].id] = vsOut.arg
    /\ vsOut.hits[1].cos.num = vsOut.hits[1].cos.den

C7_SearchBounded ==
    (vsOut.op = "search" /\ vs.initialized /\ Len(vsOut.arg) = Dimension) =>
        /\ (GetCount(vs) = 0 \/ DOMAIN vs.index = {}) =>
               (vsOut.err = "none" /\ vsOut.hits = <<>>)
        /\ vsOut.err = "none" =>
               /\ Len(vsOut.hits) <= Min(vsOut.k, GetCount(vs))
               /\ \A a \in 1..(Len(vsOut.hits) - 1) :
                      NoFarther(vsOut.hits[a].cos, vsOut.hits[a + 1].cos)

C7_Witness ==
    /\ vsOut.op = "search"
    /\ vsOut.err = "none"
    /\ vsOut.k = 2
    /\ Len(vsOut.hits) = 2
    /\ ~NoFarther(vsOut.hits[2].cos, vsOut.hits[1].cos)

C7_WitnessEmpty ==
    /\ vsOut.op = "search"
    /\ vs.initialized
    /\ GetCount(vs) = 0
    /\ vsOut.err = "none"

Rejected(o) == o.err \in {"NotInitialized", "DimensionMismatch"}

\* C8: addVector, search and save on a store that is not initialized fail with
\* NotInitialized; addVector and search with a vector of another length fail
\* with DimensionMismatch; a rejected call changes neither getCount() nor the
\* entries, and every entry of the index has the configured dimension.
C8_RejectsWithoutEffect ==
    [][/\ (vsOut'.op \in {"addVector", "search", "save"} /\ ~vs.initialized)
              => vsOut'.err = "NotInitialized"
       /\ (vsOut'.op \in {"addVector", "search"} /\ vs.initialized
              /\ Len(vsOut'.arg) # Dimension)
              => vsOut'.err = "DimensionMismatch"
       /\ Rejected(vsOut') => (vs' = vs /\ file' = file)
       /\ \A i \in DOMAIN vs'.index : Len(vs'.index[i]) = Dimension]_vars

C8_Witness ==
    /\ vsOut.op = "addVector"
    /\ vsOut.err = "DimensionMismatch"
    /\ Cardinality(DOMAIN vs.index) >= 1

\* C9 as stated: with no file at the index path initialize succeeds with a
\* fresh empty index; with a file that cannot be loaded it fails with an
\* index-persistence error.
C9_CorruptFileFails ==
    (vsOut.op = "initialize" /\ vsOut.fresh) =>
        /\ file.state = "absent" =>
               (vsOut.err = "none" /\ vs.initialized /\ GetCount(vs) = 0)
        /\ file.state = "corrupt" =>
               (vsOut.err = "IndexPersistenceError" /\ ~vs.initialized)

\* C9 (amended): in both cases initialize succeeds with a fresh empty index;
\* the failed load is only logged.
C9_CorruptFileFallsBack ==
    (vsOut.op = "initialize" /\ vsOut.fresh /\ file.state \in {"absent", "corrupt"}) =>
        /\ vsOut.err = "none"
        /\ vs.initialized
        /\ DOMAIN vs.index = {}
        /\ GetCount(vs) = 0

C9_Witness ==
    /\ vsOut.op = "initialize"
    /\ vsOut.fresh
    /\ file.state = "corrupt"
    /\ vs.initialized


\* C24: after any sequence of addVector calls on a store initialized once,
\* calls that repeat an id included, the index holds one entry per id and
\* getCount() is the number of entries the index holds.
C24_CountIsEntries ==
    (vs.initialized /\ ~vs.again) => GetCount(vs) = Cardinality(DOMAIN vs.index)

-----------------------------------------------------------------------------
(* Claims about KnowledgeBase                                               *)

VectorCount == GetStats(db, vs).vectorCount

\* the call just made left the index as it was: same entries, same getCount()
IndexUntouched == vs'.index = vs.index /\ GetCount(vs') = GetCount(vs)

\* C10 (as stated): deleteDocument never changes the vector index (the vector
\* of the deleted document stays, getStats().vectorCount is as before), and
\* vectorCount never decreases over any KnowledgeBase operation.
C10_VectorCountNeverDecreases ==
    [][/\ kbOut'.op = "deleteDocument" => IndexUntouched
       /\ GetStats(db', vs').vectorCount >= VectorCount]_vars

\* C10 (amended): deleteDocument never changes the vector index, and
\* vectorCount never decreases over addDocument, addDocuments, deleteDocument
\* and close; a repeated initialize() reloads the index file and is excluded.
C10_DeleteKeepsIndex ==
    [][/\ kbOut'.op = "deleteDocument" => IndexUntouched
       /\ kbOut'.op \in {"addDocument", "addDocuments", "deleteDocument", "close"}
             => GetStats(db', vs').vectorCount >= VectorCount]_vars

\* a document was deleted and its vector is still in the index
C10_Witness ==
    /\ kbOut.op = "deleteDocument"
    /\ kbOut.deleted
    /\ kbOut.id \notin DOMAIN db.docs
    /\ kbOut.id \in DOMAIN vs.index
    /\ VectorCount > 0

\* C16: from an empty knowledge base, after addDocument and addDocuments calls
\* that all succeeded and no other call, getStats() reports documents =
\* embeddings = vectorCount = the number of documents added.
C16_StatsCountAdded ==
    addedCount >= 0 =>
        GetStats(db, vs) = [documents |-> addedCount, embeddings |-> addedCount,
                            vectorCount |-> addedCount]

\* an addDocument and an addDocuments call have added documents
C16_Witness ==
    /\ addedCount = 2
    /\ kbOut.op = "addDocuments"
    /\ Len(kbOut.ids) = 1
    /\ GetStats(db, vs).documents = 2

\* the vector stored for a document is the embedding of its own content (a
\* content that is empty has no embedding)
OwnEmbedding(stored, id) ==
    id \in DOMAIN stored =>
        ~Blank(db.docs[id]) /\ stored[id] = Embedding(db.docs[id])

\* C18: embedBatch gives one vector per text, the i-th for the i-th text, so
\* addDocuments stores with every document, in the document store and in the
\* vector index, the embedding computed from that document's own content.
C18_OwnEmbeddingStored ==
    \A id \in DOMAIN db.docs :
        OwnEmbedding(db.embs, id) /\ OwnEmbedding(vs.index, id)

\* the call just made inserted one document, the next id, with the embedding
\* of its content as its embedding row
InsertedOne ==
    LET docId == db.seq + 1
    IN  /\ DOMAIN db'.docs = (DOMAIN db.docs) \cup {docId}
        /\ DOMAIN db'.embs = (DOMAIN db.embs) \cup {docId}
        /\ \A id \in DOMAIN db.docs : db'.docs[id] = db.docs[id]
        /\ \A id \in DOMAIN db.embs : db'.embs[id] = db.embs[id]
        /\ db'.embs[docId] = Embedding(db'.docs[docId])

\* C23: a failure inside addDocument leaves exactly the effects of the steps
\* completed before it: a failed embedding call adds no document, embedding
\* row or index vector; a failed insertion into the vector index leaves the
\* document and its embedding row in the store and the index unchanged; a
\* failed save leaves the document, the row and the vector, and the file as
\* it was.
C23_NoRollback ==
    [][kbOut'.op = "addDocument" =>
          /\ kbOut'.err = "ProviderError" => (db' = db /\ vs' = vs /\ file' = file)
          /\ kbOut'.err = "AddFailed" => (InsertedOne /\ vs' = vs /\ file' = file)
          /\ kbOut'.err = "SaveFailed" =>
                 /\ InsertedOne
                 /\ vs'.index = AddPoint(vs.index, db.seq + 1, db'.embs[db.seq + 1])
                 /\ file' = file]_vars

\* addDocument failed at the vector index: the document is in the store and
\* not in the index
C23_Witness ==
    /\ kbOut.op = "addDocument"
    /\ kbOut.err = "AddFailed"
    /\ db.seq \in DOMAIN db.docs
    /\ db.seq \in DOMAIN db.embs
    /\ db.seq \notin DOMAIN vs.index

\* addDocument failed at the embedding call with documents in the store
C23_WitnessProvider ==
    /\ kbOut.op = "addDocument"
    /\ kbOut.err = "ProviderError"
    /\ db.seq > 0
    /\ Cardinality(DOMAIN db.docs) = db.seq

\* C25: close() never throws, and after it the document store is closed,
\* also when saving the vector index failed during the call.
C25_CloseClosesStore ==
    kbOut.op = "close" => (kbOut.err = "none" /\ ~db.open)

\* the call just made was a modification that returned successfully
Modified ==
    /\ kbOut.err = "none"
    /\ \/ kbOut.op \in {"addDocument", "addDocuments"}
       \/ kbOut.op = "deleteDocument" /\ kbOut.deleted

\* the VectorStore of a new KnowledgeBase after initialize() on the same paths
Reloaded == Initialize(NewStore, file).store

\* C26: whenever addDocument, addDocuments or deleteDocument returns
\* successfully, the index file holds exactly the entries of the in-memory
\* index, and a new KnowledgeBase initialized on the same paths has the same
\* entries and reports the same vectorCount.
C26_PersistedAfterModification ==
    Modified =>
        /\ file = WrittenFile(vs.index)
        /\ Reloaded.index = vs.index
        /\ GetStats(db, Reloaded).vectorCount = GetStats(db, vs).vectorCount

\* C30: a deleteDocument(id) that throws has no effect on the document: if
\* the document was in the store before the call (made before initialize(),
\* or with a save that fails), it is in the store after it.
C30_FailedDeleteKeepsDocument ==
    [][(kbOut'.op = "deleteDocument" /\ kbOut'.err # "none") =>
          (kbOut'.id \in DOMAIN db.docs => kbOut'.id \in DOMAIN db'.docs)]_vars

-----------------------------------------------------------------------------
(* Claims about the queries of KnowledgeBase                                *)

SearchOps == {"search", "searchByVector", "hybridSearch"}

\* the ids of the documents a query returned
ReturnedIds(out) ==
    {out.results[k].id : k \in 1..Len(out.results)}
        \cup {out.ranked[k].id : k \in 1..Len(out.ranked)}

\* index entries whose document is gone
StaleIds == (DOMAIN vs.index) \ (DOMAIN db.docs)

\* C11: every result of search, searchByVector and hybridSearch is a document
\* that is in the document store when the call is made; a hit of the index
\* whose document was deleted is skipped, and with the knowledge base
\* initialized and the database open the only failures are those of the
\* provider, of the query vector's dimension, of searchKnn and of the MATCH
\* expression.
C11_ResultsResolve ==
    [][kbOut'.op \in SearchOps =>
          /\ ReturnedIds(kbOut') \subseteq DOMAIN db.docs
          /\ (kbInitialized /\ db.open) =>
                 kbOut'.err \in {"none", "ProviderError", "DimensionMismatch",
                                 "SearchFailed", "MatchFailed"}]_vars

\* a search whose k covered the whole index met a stale entry and returned
\* the documents that are left
C11_Witness ==
    /\ kbOut.op = "search"
    /\ kbOut.err = "none"
    /\ StaleIds # {}
    /\ kbOut.lim * 2 >= Cardinality(DOMAIN vs.index)
    /\ Len(kbOut.results) > 0

\* every document a search(query) on store d and index s can return is
\* returned under the embedding of its own content
OwnVectorReturned(init, d, s) ==
    \A query \in Texts, lim \in 1..MaxLimit, threshold \in Thresholds :
        \A o \in KBSearch(init, d, s, query, TRUE, lim, threshold) :
            \A k \in 1..Len(o.results) :
                LET id == o.results[k].id
                IN  /\ ~Blank(d.docs[id])
                    /\ s.index[id] = Embedding(d.docs[id])

\* C28: document ids are never reused: an id given to a new document is
\* greater than every id given before, also after deletions, so an index
\* entry left by a deleted document never resolves to a document added later,
\* and a search never returns a document under a vector computed for other
\* content.
C28_IdsNeverReused ==
    [][/\ \A id \in (DOMAIN db'.docs) \ (DOMAIN db.docs) :
              id > db.seq /\ \A old \in DOMAIN db.docs : id > old
       /\ db'.seq >= db.seq
       /\ \A id \in StaleIds : id \in DOMAIN db'.docs => id \in DOMAIN db.docs
       /\ OwnVectorReturned(kbInitialized', db', vs')]_vars

\* the documents in the store whose vector in the index has similarity >=
\* threshold to the query
LiveMatches(query, threshold) ==
    {id \in (DOMAIN db.docs) \cap (DOMAIN vs.index) :
        NoFarther(Cosine(Embedding(query), vs.index[id]), threshold)}

\* C29: search(query, {limit, threshold}) returns min(limit, n) results, n the
\* number of documents in the store whose vectors have similarity >= threshold
\* to the query, however many vectors of deleted documents the index holds.
C29_StaleDoNotReduce ==
    \A query \in Texts, lim \in 1..MaxLimit, threshold \in Thresholds :
        \A o \in KBSearch(kbInitialized, db, vs, query, TRUE, lim, threshold) :
            o.err = "none" =>
                Len(o.results) = Min(lim, Cardinality(LiveMatches(query, threshold)))

-----------------------------------------------------------------------------
(* Claims about named vectors                                               *)

\* what a save with this description argument is expected to give back
DescriptionGiven(description) == IF description = Undefined THEN Null ELSE description

\* C12: named vectors are a map keyed by handle: getNamedVector(h) gives the
\* vector and the description of the last save of h that no delete followed
\* (null if there is none), getAllNamedVectors has at most one entry per
\* handle, and deleteNamedVector(h) returns true exactly when h was present.
C12_NamedVectorsAreAMap ==
    /\ \A h \in Handles :
          LET got == GetNamedVector(namedVectors, h)
          IN  IF h \in DOMAIN lastSaved
              THEN /\ Len(got) = 1
                   /\ Elements(got[1].vector) = lastSaved[h].elements
                   /\ got[1].description = DescriptionGiven(lastSaved[h].description)
              ELSE got = <<>>
    /\ Distinct(GetAllNamedVectors(namedVectors), LAMBDA r : r.handle)
    /\ nvOut.op = "deleteNamedVector" => nvOut.deleted = nvOut.present

-----------------------------------------------------------------------------
(* Claims about vectorAlgebra                                               *)

\* the weight of an operation: the one given, 1 when none is given
WeightGiven(op) == IF "weight" \in DOMAIN op THEN op.weight ELSE Whole(1)

\* the fold of the first i operations
RECURSIVE StepwiseFold(_, _)
StepwiseFold(ops, i) ==
    IF i = 1 THEN NamedVector(ops[1].handle)
    ELSE IF ops[i].type = "add"
    THEN Add(StepwiseFold(ops, i - 1), NamedVector(ops[i].handle), WeightGiven(ops[i]))
    ELSE Subtract(StepwiseFold(ops, i - 1), NamedVector(ops[i].handle), WeightGiven(ops[i]))

\* C13: for a non-empty list of operations whose handles all resolve,
\* vectorAlgebra returns the fold in list order: the first operation's vector
\* as it is, then add(acc, v, w) or subtract(acc, v, w) for every later
\* operation, with w the weight given (0 included) and 1 when none is given.
C13_StepwiseFoldWithGivenWeights ==
    (/\ vaPc = "done"
     /\ Len(operations) > 0
     /\ \A i \in 2..Len(operations) : operations[i].type \in {"add", "subtract"})
        => vaResult = <<StepwiseFold(operations, Len(operations))>>

\* C15: search and searchByVector with options {limit, threshold} return at
\* most limit results, each of similarity 1 - distance >= threshold, in order
\* of non-increasing similarity.
C15_LimitThresholdOrder ==
    kbOut.op \in {"search", "searchByVector"} =>
        /\ Len(kbOut.results) <= kbOut.lim
        /\ \A k \in 1..Len(kbOut.results) :
               NoFarther(kbOut.results[k].cos, kbOut.threshold)
        /\ \A k \in 1..(Len(kbOut.results) - 1) :
               NoFarther(kbOut.results[k].cos, kbOut.results[k + 1].cos)

\* a search returned two documents of different similarity
C15_Witness ==
    /\ kbOut.op = "search"
    /\ Len(kbOut.results) = 2
    /\ ~NoFarther(kbOut.results[2].cos, kbOut.results[1].cos)

\* a search by vector left out a document below the threshold and stopped at
\* the limit
C15_WitnessThreshold ==
    /\ kbOut.op = "searchByVector"
    /\ kbOut.threshold.num > 0
    /\ Len(kbOut.results) = kbOut.lim
    /\ Cardinality((DOMAIN vs.index) \cap (DOMAIN db.docs)) > Len(kbOut.results)

-----------------------------------------------------------------------------
(* Claims about the embedding retry loop                                    *)

Ok(resp) == resp.kind = "response" /\ resp.status < 400

\* the answers the loop is meant to retry after: 429, 5xx, a failed fetch
Transient(resp) ==
    \/ resp.kind = "thrown"
    \/ resp.kind = "response" /\ (resp.status = 429 \/ resp.status >= 500)

\* C17: for one batch embedBatchWithRetry makes at most maxRetries + 1
\* requests; it goes on to another attempt only after a 429, a 5xx or a
\* network error, and sleeps retryDelay * 2^n before the attempt that follows
\* attempt n; when the retries are used up it fails; a successful response
\* ends it at once.
C17_BoundedBackoff ==
    [][requests' = requests + 1 =>
          /\ requests' <= maxRetries + 1
          /\ attempt' = attempt + 1 =>
                 /\ Transient(response')
                 /\ delays' = Append(delays, retryDelay * Pow2(attempt))
          /\ (attempt = maxRetries /\ ~Ok(response')) => rpc' = "failed"
          /\ Ok(response') => rpc' = "done"]_vars

\* a response with a client-error status other than 429
ClientError(resp) ==
    resp.kind = "response" /\ resp.status >= 400 /\ resp.status < 500 /\ resp.status # 429

\* C27: a response with a client-error status other than 429 is never
\* retried: the request that got it is the last one and embedBatchWithRetry
\* fails, whatever the text of the provider's error message.
C27_ClientErrorNotRetried ==
    [][(requests' = requests + 1 /\ ClientError(response')) =>
          (rpc' = "failed" /\ attempt' = attempt /\ delays' = delays)]_vars

====
